---- MODULE Spec2Model ----
\* A model of the RUC macro library (src/src/lib.rs): error chains built with
\* eg! / d! / .c(), the emitting macros info! / omit! / info_omit! / pnk! /
\* die!, and the map! constructors.  The err module (SimpleMsg, SimpleError,
\* the RucResult combinator `c`, print / print_die / print_die_debug) is
\* declared by lib.rs (pub mod err) and used by its macros; its definitions
\* here follow the specification's description of it.
EXTENDS Integers, Sequences, FiniteSets, TLC

\* ---------------------------------------------------------------- bounds
MaxDepth == 3   \* longest chain a caller builds with eg! and .c(d!(..))
MaxEmits == 1   \* entries the model lets the diagnostic stream hold
MaxCalls == 2   \* info! / info_omit! calls counted in a run
MaxPairs == 3   \* key => value pairs of a map! literal

\* ---------------------------------------------------------------- inputs
\* A call site: what file!(), line!() and column!() expand to there.
Site(file, line, column) == [file |-> file, line |-> line, column |-> column]

\* A typed payload, as in `struct CustomErr(i32)` of the crate example.
CustomErr(n) == [name |-> "CustomErr", arg |-> n]
NoVal == [name |-> "", arg |-> 0]

\* The argument forms of d! / eg! / info! / pnk!: nothing, a message
\* expression, or `@value` (a value to be debug-formatted).
NoArg == [kind |-> "none", text |-> "", val |-> NoVal]
Text(s) == [kind |-> "text", text |-> s, val |-> NoVal]
At(v) == [kind |-> "debug", text |-> "", val |-> v]

\* The macro invocations of the calling program: each is written at one call
\* site with one argument form.
Invocations ==
  { [arg |-> NoArg, site |-> Site("src/lib.rs", 241, 42)],
    [arg |-> Text("A custom message!"), site |-> Site("src/main.rs", 17, 42)] }
Vals == {0, 1}

\* ---------------------------------------------------------------- values
\* Option<T>: None is <<>>, Some(x) is <<x>>.
None == <<>>
Some(x) == <<x>>

\* What the caller holds: Result<T> (Ok / Err), Result<T, ()> after info!
\* (Ok / ErrUnit), a bare T after pnk! (Val), or nothing (Unit).
Ok(v) == [kind |-> "Ok", val |-> Some(v), err |-> None]
Err(e) == [kind |-> "Err", val |-> None, err |-> Some(e)]
ErrUnit == [kind |-> "ErrUnit", val |-> None, err |-> None]
Val(v) == [kind |-> "Val", val |-> Some(v), err |-> None]
Unit == [kind |-> "Unit", val |-> None, err |-> None]

\* format!("{:?}", v) and format!("{:#?}", v) of a one-field tuple struct.
DebugFmt(v) == v.name \o "(" \o ToString(v.arg) \o ")"
PrettyDebugFmt(v) == v.name \o "(\n    " \o ToString(v.arg) \o ",\n)"

\* err::SimpleMsg::new(err, file, line, column)
SimpleMsg_new(err, file, line, column) ==
  [err |-> err, file |-> file, line |-> line, column |-> column]

\* err::SimpleError::new(msg, cause)
SimpleError_new(msg, cause) == [msg |-> msg, cause |-> cause]

\* d! with line!() and column!() handed over in the wrong order.
d_swapped(arg, site) ==
  CASE arg.kind = "text" ->
         SimpleMsg_new(arg.text, site.file, site.column, site.line)
    [] arg.kind = "debug" ->
         SimpleMsg_new(DebugFmt(arg.val), site.file, site.column, site.line)
    [] OTHER ->
         SimpleMsg_new("...", site.file, site.column, site.line)

\* d! whose @ arm formats with {:#?}, as eg! does.
d_pretty(arg, site) ==
  CASE arg.kind = "text" ->
         SimpleMsg_new(arg.text, site.file, site.line, site.column)
    [] arg.kind = "debug" ->
         SimpleMsg_new(PrettyDebugFmt(arg.val), site.file, site.line,
                       site.column)
    [] OTHER ->
         SimpleMsg_new("...", site.file, site.line, site.column)

\* d!: the three arms.
d(arg, site) ==
  CASE arg.kind = "text" ->
         SimpleMsg_new(arg.text, site.file, site.line, site.column)
    [] arg.kind = "debug" ->
         SimpleMsg_new(DebugFmt(arg.val), site.file, site.line, site.column)
    [] OTHER ->
         SimpleMsg_new("...", site.file, site.line, site.column)

\* eg! that hands SimpleError::new a cause instead of None.
eg_caused(arg, site) ==
  LET m == IF arg.kind = "text" THEN arg.text
           ELSE IF arg.kind = "debug" THEN PrettyDebugFmt(arg.val) ELSE "..."
      root == SimpleError_new(
                SimpleMsg_new(m, site.file, site.line, site.column), None)
  IN  SimpleError_new(
        SimpleMsg_new(m, site.file, site.line, site.column), Some(root))

\* eg!: the three arms; the originating error has no cause.
eg(arg, site) ==
  CASE arg.kind = "text" -> SimpleError_new(d(Text(arg.text), site), None)
    [] arg.kind = "debug" ->
         SimpleError_new(d(Text(PrettyDebugFmt(arg.val)), site), None)
    [] OTHER -> SimpleError_new(d(Text("..."), site), None)

\* RucResult::c, the context combinator.
c(r, msg) ==
  IF r.kind = "Err" THEN Err(SimpleError_new(msg, Some(r.err[1]))) ELSE r

\* RucError::cause
cause(e) == e.cause

\* One line of a report: the node's location and its message.
Line(e) ==
  [file |-> e.msg.file, line |-> e.msg.line, column |-> e.msg.column,
   message |-> e.msg.err]

\* RucError::render: the head's line, then the cause's report.
RECURSIVE render(_)
render(e) ==
  IF cause(e) = None THEN <<Line(e)>> ELSE <<Line(e)>> \o render(cause(e)[1])

\* Number of nodes of a chain.
RECURSIVE Depth(_)
Depth(e) == IF e.cause = None THEN 1 ELSE 1 + Depth(e.cause[1])

\* What a call does besides returning: its value, what it writes to the
\* diagnostic stream, whether it panics.
Eff(r, out, panic) == [res |-> r, out |-> out, panic |-> panic]

Report(lines) == [kind |-> "report", lines |-> lines]
Msg(m) ==
  [kind |-> "msg",
   lines |-> <<[file |-> m.file, line |-> m.line, column |-> m.column,
                message |-> m.err]>>]

\* RucError::print, print_die, print_die_debug
print(e) == Eff(Unit, <<Report(render(e))>>, FALSE)
print_die(e) == Eff(Unit, <<Report(render(e))>>, TRUE)
print_die_debug(e) == Eff(Unit, <<Report(render(e))>>, TRUE)

\* info! that reports its own node when the result is a success.
info_always(r, arg, site) ==
  LET w == c(r, d(arg, site))
  IN  IF w.kind = "Err"
      THEN Eff(ErrUnit, print(w.err[1]).out, print(w.err[1]).panic)
      ELSE Eff(w, print(SimpleError_new(d(arg, site), None)).out, FALSE)

\* info! that calls print_die where it should call print.
info_dies(r, arg, site) ==
  LET w == c(r, d(arg, site))
  IN  IF w.kind = "Err"
      THEN Eff(ErrUnit, print_die(w.err[1]).out, print_die(w.err[1]).panic)
      ELSE Eff(w, <<>>, FALSE)

\* info!: $ops.c(d!(..)).map_err(|e| e.print())
info(r, arg, site) ==
  LET w == c(r, d(arg, site))
  IN  IF w.kind = "Err"
      THEN Eff(ErrUnit, print(w.err[1]).out, print(w.err[1]).panic)
      ELSE Eff(w, <<>>, FALSE)

\* omit! that prints the error it drops.
omit_logs(r) ==
  IF r.kind = "Err" THEN Eff(Unit, print(r.err[1]).out, FALSE)
  ELSE Eff(Unit, <<>>, FALSE)

\* omit!: let _ = $ops;
omit(r) == Eff(Unit, <<>>, FALSE)

\* info_omit!: omit!(info!(..))
info_omit(r, arg, site) ==
  LET i == info(r, arg, site)
      o == omit(i.res)
  IN  Eff(o.res, i.out \o o.out, i.panic \/ o.panic)

\* pnk! that calls print where it should call print_die.
pnk_prints(r, arg, site) ==
  LET w == c(r, d(arg, site))
  IN  IF w.kind = "Err" THEN print(w.err[1])
      ELSE Eff(Val(w.val[1]), <<>>, FALSE)

\* pnk! without the node of its own: $ops.unwrap_or_else(|e| e.print_die())
pnk_bare(r, arg, site) ==
  IF r.kind = "Err" THEN print_die(r.err[1])
  ELSE Eff(Val(r.val[1]), <<>>, FALSE)

\* pnk!: $ops.c(d!(..)).unwrap_or_else(|e| e.print_die())
pnk(r, arg, site) ==
  LET w == c(r, d(arg, site))
  IN  IF w.kind = "Err" THEN print_die(w.err[1])
      ELSE Eff(Val(w.val[1]), <<>>, FALSE)

\* pnk!(@..): $ops.c(d!(..)).unwrap_or_else(|e| e.print_die_debug())
pnk_debug(r, arg, site) ==
  LET w == c(r, d(arg, site))
  IN  IF w.kind = "Err" THEN print_die_debug(w.err[1])
      ELSE Eff(Val(w.val[1]), <<>>, FALSE)

\* pd!: eprintln!("\n{}", d!(x))
pd(arg, site) == Eff(Unit, <<Msg(d(arg, site))>>, FALSE)

\* die!: with an argument pd!(e) first; then panic!()
die(arg, site) ==
  IF arg.kind = "none" THEN Eff(Unit, <<>>, TRUE)
  ELSE Eff(Unit, pd(arg, site).out, TRUE)

\* ---------------------------------------------------------------- state
VARIABLES
  res,       \* the result the caller holds
  stderr,    \* the diagnostic stream: the entries written so far
  panicked,  \* the process has panicked
  op,        \* the last call: its name, the kind of result it was given, its
             \* macro invocation
  text,      \* the text returned by the last render() of the held chain
  built,     \* the invocations that built the held chain, the eg! first
  nInfo,     \* info! / info_omit! calls made
  nInfoErr,  \* those of them made on a failed result
  script,    \* the argument forms a scripted caller has still to use
  list,      \* the key => value pairs of the map! literals
  s1,        \* map! {..} of list, once built
  s2         \* map! {B ..} of list, once built

vars ==
  <<res, stderr, panicked, op, text, built, nInfo, nInfoErr, script, list,
    s1, s2>>

NoInvocation == [arg |-> NoArg, site |-> Site("", 0, 0)]
Call(name, i) == [name |-> name, on |-> res.kind, inv |-> i]

Init ==
  /\ res = Unit
  /\ stderr = <<>>
  /\ panicked = FALSE
  /\ op = [name |-> "init", on |-> "Unit", inv |-> NoInvocation]
  /\ text = <<>>
  /\ built = <<>>
  /\ nInfo = 0
  /\ nInfoErr = 0
  /\ script = <<>>
  /\ list = <<>>
  /\ s1 = None
  /\ s2 = None

Holding == res.kind \in {"Ok", "Err"}

\* The effect of a call on the process.
Apply(e, name, i) ==
  /\ res' = e.res
  /\ stderr' = stderr \o e.out
  /\ panicked' = e.panic
  /\ op' = Call(name, i)
  /\ text' = <<>>
  /\ UNCHANGED <<list, s1, s2>>

\* Err(eg!(..)): a fallible operation fails.
MkErr ==
  /\ ~panicked /\ ~Holding
  /\ \E i \in Invocations :
       /\ Apply(Eff(Err(eg(i.arg, i.site)), <<>>, FALSE), "eg", i)
       /\ built' = <<i>>
  /\ UNCHANGED <<nInfo, nInfoErr, script>>

\* Ok(v): a fallible operation succeeds.
MkOk ==
  /\ ~panicked /\ ~Holding
  /\ \E v \in Vals : Apply(Eff(Ok(v), <<>>, FALSE), "ok", NoInvocation)
  /\ built' = <<>>
  /\ UNCHANGED <<nInfo, nInfoErr, script>>

\* r.c(d!(..))
C ==
  /\ ~panicked /\ Holding
  /\ res.kind = "Err" => Depth(res.err[1]) < MaxDepth
  /\ \E i \in Invocations :
       /\ Apply(Eff(c(res, d(i.arg, i.site)), <<>>, FALSE), "c", i)
       /\ built' = IF res.kind = "Err" THEN Append(built, i) ELSE built
  /\ UNCHANGED <<nInfo, nInfoErr, script>>

\* A render() that walks the chain by taking each cause out of its node.
Render_takes ==
  /\ ~panicked /\ res.kind = "Err"
  /\ text' = render(res.err[1])
  /\ res' = Err(SimpleError_new(res.err[1].msg, None))
  /\ op' = Call("render", NoInvocation)
  /\ UNCHANGED <<stderr, panicked, built, nInfo, nInfoErr, script, list,
                 s1, s2>>

\* e.render() on the held chain
Render ==
  /\ ~panicked /\ res.kind = "Err"
  /\ text' = render(res.err[1])
  /\ op' = Call("render", NoInvocation)
  /\ UNCHANGED <<res, stderr, panicked, built, nInfo, nInfoErr, script, list,
                 s1, s2>>

\* e.print() on the held chain
PrintChain ==
  /\ ~panicked /\ res.kind = "Err"
  /\ Len(stderr) < MaxEmits
  /\ stderr' = stderr \o print(res.err[1]).out
  /\ panicked' = print(res.err[1]).panic
  /\ op' = Call("print", NoInvocation)
  /\ UNCHANGED <<res, text, built, nInfo, nInfoErr, script, list, s1, s2>>

Counted ==
  /\ nInfo' = nInfo + 1
  /\ nInfoErr' = IF res.kind = "Err" THEN nInfoErr + 1 ELSE nInfoErr

Info ==
  /\ ~panicked /\ Holding
  /\ Len(stderr) < MaxEmits /\ nInfo < MaxCalls
  /\ \E i \in Invocations : Apply(info(res, i.arg, i.site), "info", i)
  /\ built' = <<>>
  /\ Counted
  /\ UNCHANGED script

Omit ==
  /\ ~panicked /\ res.kind \in {"Ok", "Err", "ErrUnit"}
  /\ Apply(omit(res), "omit", NoInvocation)
  /\ built' = <<>>
  /\ UNCHANGED <<nInfo, nInfoErr, script>>

InfoOmit ==
  /\ ~panicked /\ Holding
  /\ Len(stderr) < MaxEmits /\ nInfo < MaxCalls
  /\ \E i \in Invocations :
       Apply(info_omit(res, i.arg, i.site), "info_omit", i)
  /\ built' = <<>>
  /\ Counted
  /\ UNCHANGED script

Pnk ==
  /\ ~panicked /\ Holding
  /\ Len(stderr) < MaxEmits
  /\ \E i \in Invocations : Apply(pnk(res, i.arg, i.site), "pnk", i)
  /\ built' = <<>>
  /\ UNCHANGED <<nInfo, nInfoErr, script>>

PnkDebug ==
  /\ ~panicked /\ Holding
  /\ Len(stderr) < MaxEmits
  /\ \E i \in Invocations :
       Apply(pnk_debug(res, i.arg, i.site), "pnk_debug", i)
  /\ built' = <<>>
  /\ UNCHANGED <<nInfo, nInfoErr, script>>

Die ==
  /\ ~panicked
  /\ Len(stderr) < MaxEmits
  /\ \E i \in Invocations : Apply(die(i.arg, i.site), "die", i)
  /\ built' = <<>>
  /\ UNCHANGED <<nInfo, nInfoErr, script>>

Next ==
  \/ MkErr \/ MkOk \/ C \/ Render \/ PrintChain
  \/ Info \/ Omit \/ InfoOmit \/ Pnk \/ PnkDebug \/ Die

Spec == Init /\ [][Next]_vars

\* Callers that only build results and discard them, silently or after
\* logging.
NextDiscard == MkErr \/ MkOk \/ C \/ Info \/ Omit \/ InfoOmit

SpecDiscard == Init /\ [][NextDiscard]_vars

\* ------------------------------------------------- the crate's scenarios
\* The argument forms of a scripted caller, the eg! first: the crate example
\* (will_panic), the test's t_display_style_inner, and the chain of one
\* originating error, three placeholder wraps, two messages and a payload.
DocScenario ==
  << Text("The final error message!"), NoArg, Text("A custom message!"),
     Text("ERR_UNKNOWN"), At(CustomErr(-1)) >>
TestScenario == DocScenario \o <<NoArg>>
WrapScenario ==
  << Text("The final error message!"), NoArg, NoArg, NoArg,
     Text("A custom message!"), Text("ERR_UNKNOWN"), At(CustomErr(-1)) >>
Scenarios == {DocScenario, TestScenario, WrapScenario}

ScenarioSites == {Site("src/lib.rs", 16, 37), Site("src/lib.rs", 241, 42)}

InitE2E ==
  /\ res = Unit
  /\ stderr = <<>>
  /\ panicked = FALSE
  /\ op = [name |-> "init", on |-> "Unit", inv |-> NoInvocation]
  /\ text = <<>>
  /\ built = <<>>
  /\ nInfo = 0
  /\ nInfoErr = 0
  /\ script \in Scenarios
  /\ list = <<>>
  /\ s1 = None
  /\ s2 = None

\* l1: Err(eg!(..))
ScriptEg ==
  /\ ~panicked /\ res.kind = "Unit" /\ script # <<>> /\ op.name = "init"
  /\ \E site \in ScenarioSites :
       LET i == [arg |-> Head(script), site |-> site]
       IN  /\ Apply(Eff(Err(eg(i.arg, i.site)), <<>>, FALSE), "eg", i)
           /\ built' = <<i>>
  /\ script' = Tail(script)
  /\ UNCHANGED <<nInfo, nInfoErr>>

\* l2 .. l5 and t_display_style_inner: the caller's result .c(d!(..))
ScriptC ==
  /\ ~panicked /\ res.kind = "Err" /\ script # <<>>
  /\ \E site \in ScenarioSites :
       LET i == [arg |-> Head(script), site |-> site]
       IN  /\ Apply(Eff(c(res, d(i.arg, i.site)), <<>>, FALSE), "c", i)
           /\ built' = Append(built, i)
  /\ script' = Tail(script)
  /\ UNCHANGED <<nInfo, nInfoErr>>

\* The chain is complete: it is rendered, or handed to pnk!(..) / pnk!(@..).
RunRender == script = <<>> /\ Render
RunPnk ==
  /\ ~panicked /\ res.kind = "Err" /\ script = <<>>
  /\ \E site \in ScenarioSites :
       Apply(pnk(res, NoArg, site), "pnk", [arg |-> NoArg, site |-> site])
  /\ built' = <<>>
  /\ UNCHANGED <<nInfo, nInfoErr, script>>
RunPnkDebug ==
  /\ ~panicked /\ res.kind = "Err" /\ script = <<>>
  /\ \E site \in ScenarioSites :
       Apply(pnk_debug(res, NoArg, site), "pnk_debug",
             [arg |-> NoArg, site |-> site])
  /\ built' = <<>>
  /\ UNCHANGED <<nInfo, nInfoErr, script>>

NextE2E == ScriptEg \/ ScriptC \/ RunRender \/ RunPnk \/ RunPnkDebug

SpecE2E == InitE2E /\ [][NextE2E]_vars

\* ------------------------------------------------------------------ map!
Keys == 1..3
MapVals == {2, 4}
Pair(k, v) == [k |-> k, v |-> v]
Pairs == {Pair(k, v) : k \in Keys, v \in MapVals}

\* std::collections::HashMap: a capacity and the entries, a function of the
\* keys.
HashMap_with_capacity(n) == [cap |-> n, m |-> <<>>]
HashMap_insert(h, k, v) ==
  [h EXCEPT !.m = [x \in DOMAIN h.m \cup {k} |-> IF x = k THEN v ELSE h.m[x]]]
HashMap_len(h) == Cardinality(DOMAIN h.m)

\* std::collections::BTreeMap: the entries in ascending key order, which is
\* the order into_iter() yields them in.
BTreeMap_new == <<>>
BTreeMap_insert(b, k, v) ==
  SelectSeq(b, LAMBDA e : e.k < k) \o <<Pair(k, v)>>
    \o SelectSeq(b, LAMBDA e : e.k > k)
BTreeMap_len(b) == Len(b)
BTreeMap_into_iter(b) == b

\* $(m.insert($k, $v);)*
RECURSIVE HashMap_inserts(_, _)
HashMap_inserts(h, l) ==
  IF l = <<>> THEN h
  ELSE HashMap_inserts(HashMap_insert(h, Head(l).k, Head(l).v), Tail(l))

RECURSIVE BTreeMap_inserts(_, _)
BTreeMap_inserts(b, l) ==
  IF l = <<>> THEN b
  ELSE BTreeMap_inserts(BTreeMap_insert(b, Head(l).k, Head(l).v), Tail(l))

\* map! {k => v, ..}
map(l) == HashMap_inserts(HashMap_with_capacity(Len(l)), l)

\* map! {B ..} that keeps a key's first value: entry($k).or_insert($v)
RECURSIVE BTreeMap_or_inserts(_, _)
BTreeMap_or_inserts(b, l) ==
  IF l = <<>> THEN b
  ELSE IF \E j \in 1..Len(b) : b[j].k = Head(l).k
       THEN BTreeMap_or_inserts(b, Tail(l))
       ELSE BTreeMap_or_inserts(
              BTreeMap_insert(b, Head(l).k, Head(l).v), Tail(l))

map_B_first(l) == BTreeMap_or_inserts(BTreeMap_new, l)

\* map! {B k => v, ..}
map_B(l) == BTreeMap_inserts(BTreeMap_new, l)

InitMap ==
  /\ res = Unit
  /\ stderr = <<>>
  /\ panicked = FALSE
  /\ op = [name |-> "init", on |-> "Unit", inv |-> NoInvocation]
  /\ text = <<>>
  /\ built = <<>>
  /\ nInfo = 0
  /\ nInfoErr = 0
  /\ script = <<>>
  /\ list \in UNION {[1..n -> Pairs] : n \in 1..MaxPairs}
  /\ s1 = None
  /\ s2 = None

\* let s1 = map! {..};
BuildMap ==
  /\ s1 = None
  /\ s1' = Some(map(list))
  /\ UNCHANGED <<res, stderr, panicked, op, text, built, nInfo, nInfoErr,
                 script, list, s2>>

\* let s2 = map! {B ..};
BuildMapB ==
  /\ s2 = None
  /\ s2' = Some(map_B(list))
  /\ UNCHANGED <<res, stderr, panicked, op, text, built, nInfo, nInfoErr,
                 script, list, s1>>

NextMap == BuildMap \/ BuildMapB

SpecMap == InitMap /\ [][NextMap]_vars

\* ---------------------------------------------------------------- claims
Last(q) == q[Len(q)]

\* The line of a report shows the node made by invocation i: the call site
\* of i, and the message of i ("..." when i has no argument, the debug
\* form of the value when i has an @ argument).
Shows(l, i) ==
  /\ l.file = i.site.file /\ l.line = i.site.line
  /\ l.column = i.site.column
  /\ l.message = (CASE i.arg.kind = "none" -> "..."
                    [] i.arg.kind = "text" -> i.arg.text
                    [] OTHER -> DebugFmt(i.arg.val))

BuiltArgs == [j \in 1..Len(built) |-> built[j].arg]

\* C1: render() of a chain built by eg! and N successive .c(d!(..)) has
\* N+1 lines, one per node, the most recently attached node first and the
\* originating error last.
C1_RenderLines ==
  op.name = "render" =>
    /\ Len(text) = Len(built)
    /\ \A j \in 1..Len(text) : Shows(text[j], built[Len(built) + 1 - j])

C1_Witness ==
  /\ op.name = "render" /\ Len(built) = 3 /\ Len(text) = 3
  /\ built[1] # built[2] /\ built[2] # built[3]

\* C2: cause() of an originating error is none; after r.c(n) on a failed
\* r with chain E, cause() of the new head is E itself, node for node.
C2_CauseIsWrappedChain ==
  [][ /\ op'.name = "eg" => res'.kind = "Err" /\ cause(res'.err[1]) = None
      /\ (op'.name = "c" /\ res.kind = "Err") =>
           /\ res'.kind = "Err"
           /\ cause(res'.err[1]) = Some(res.err[1])
           /\ Depth(res'.err[1]) = Depth(res.err[1]) + 1 ]_vars

C2_Witness ==
  /\ op.name = "c" /\ res.kind = "Err" /\ Depth(res.err[1]) = 3
  /\ cause(res.err[1]) # None

\* C3: on a success the combinator, info! and pnk! hand back the success
\* value, write nothing and do not terminate.
C3_SuccessPassesThrough ==
  [][ res.kind = "Ok" =>
        /\ op'.name = "c" => res' = res
        /\ op'.name = "info" => res' = Ok(res.val[1])
        /\ op'.name \in {"pnk", "pnk_debug"} => res' = Val(res.val[1])
        /\ op'.name \in {"c", "info", "pnk", "pnk_debug"} =>
             stderr' = stderr /\ ~panicked' ]_vars

C3_Witness ==
  /\ op.name = "info" /\ op.on = "Ok" /\ res = Ok(1)
  /\ stderr = <<>> /\ ~panicked

\* C4: pnk! (either spelling) on a failed result writes one non-empty
\* report and panics; nothing is returned and no step follows the panic.
C4_PnkReportsThenDies ==
  [][ /\ ~panicked
      /\ (op'.name \in {"pnk", "pnk_debug"} /\ res.kind = "Err") =>
           /\ Len(stderr') = Len(stderr) + 1
           /\ Last(stderr').kind = "report"
           /\ Last(stderr').lines # <<>>
           /\ panicked'
           /\ res' = Unit ]_vars

C4_Witness ==
  /\ panicked /\ op.name = "pnk_debug" /\ op.on = "Err"
  /\ stderr # <<>> /\ Len(Last(stderr).lines) >= 2

\* C5 as stated: the number of reports written equals the number of
\* info! / info_omit! calls made.
C5_Original == Len(stderr) = nInfo

\* C5, amended: omit! writes nothing; info! / info_omit! write one report
\* of the whole chain when the result is a failure and nothing when it is
\* a success, so the reports written are as many as the calls made on
\* failed results.
C5_ReportsPerFailedCall ==
  /\ [](/\ Len(stderr) = nInfoErr
        /\ \A j \in 1..Len(stderr) : stderr[j].kind = "report")
  /\ [][ /\ op'.name = "omit" => stderr' = stderr
         /\ (op'.name \in {"info", "info_omit"} /\ res.kind = "Ok") =>
              stderr' = stderr
         /\ (op'.name \in {"info", "info_omit"} /\ res.kind = "Err") =>
              /\ Len(stderr') = Len(stderr) + 1
              /\ SubSeq(stderr', 1, Len(stderr)) = stderr
              /\ Len(Last(stderr').lines) = Depth(res.err[1]) + 1 ]_vars

C5_Witness ==
  /\ op.name = "info_omit" /\ op.on = "Err"
  /\ nInfo = 2 /\ nInfoErr = 1 /\ Len(stderr) = 1

\* C6 as stated: the chain of an originating error, three placeholder
\* wraps, "A custom message!", "ERR_UNKNOWN" and the payload CustomErr(-1)
\* renders as 6 lines, the payload first, the originating message last.
C6_Original ==
  (op.name = "render" /\ BuiltArgs = WrapScenario) =>
    /\ Len(text) = 6
    /\ text[1].message = "CustomErr(-1)"
    /\ Last(text).message = "The final error message!"

\* C6, amended: that chain has seven nodes and renders as 7 lines, the
\* payload first, the originating message last.
C6_SevenLines ==
  (op.name = "render" /\ BuiltArgs = WrapScenario) =>
    /\ Len(text) = 7
    /\ text[1].message = "CustomErr(-1)"
    /\ Last(text).message = "The final error message!"

C6_Witness ==
  /\ op.name = "render" /\ BuiltArgs = WrapScenario /\ text # <<>>
  /\ script = <<>>

C8_Original == panicked => op.name \in {"pnk", "pnk_debug"}

\* C8, amended: the process is terminated only by pnk! or die!.
C8_OnlyPnkOrDie == panicked => op.name \in {"pnk", "pnk_debug", "die"}

C8_Witness == panicked /\ op.name = "die" /\ stderr = <<>>

\* C9: map! {..} and map! {B ..} of one list hold the same entries, each
\* key with the value of its last occurrence, and the ordered map yields
\* its keys in ascending order.
C9_MapsAgree ==
  (s1 # None /\ s2 # None) =>
    LET h == s1[1]
        it == BTreeMap_into_iter(s2[1])
    IN  /\ HashMap_len(h) = BTreeMap_len(s2[1])
        /\ {<<k, h.m[k]>> : k \in DOMAIN h.m}
             = {<<it[j].k, it[j].v>> : j \in 1..Len(it)}
        /\ DOMAIN h.m = {list[j].k : j \in 1..Len(list)}
        /\ \A j \in 1..Len(list) :
             (\A n \in (j + 1)..Len(list) : list[n].k # list[j].k)
               => h.m[list[j].k] = list[j].v
        /\ \A j \in 1..Len(it), n \in 1..Len(it) :
             j < n => it[j].k < it[n].k

C9_Witness ==
  /\ s1 # None /\ s2 # None /\ Len(list) = 3
  /\ list[1].k = 2 /\ list[2].k = 1 /\ list[3].k = 2
  /\ list[1].v # list[3].v

\* C10: info! and pnk! on a failed result with a chain of N nodes emit a
\* report of N+1 lines: first the node of their own call site, with "..."
\* or the message given, then the caller's chain in its order.
C10_OwnNodeFirst ==
  [][ (op'.name \in {"info", "pnk", "pnk_debug"} /\ res.kind = "Err") =>
        /\ Len(stderr') = Len(stderr) + 1
        /\ Len(Last(stderr').lines) = Depth(res.err[1]) + 1
        /\ Shows(Last(stderr').lines[1], op'.inv)
        /\ Tail(Last(stderr').lines) = render(res.err[1])
        /\ \A j \in 1..Len(built) :
             Shows(Last(stderr').lines[j + 1], built[Len(built) + 1 - j])
    ]_vars

C10_Witness ==
  /\ op.name = "pnk" /\ op.on = "Err" /\ panicked
  /\ Len(Last(stderr).lines) = 4
  /\ Last(stderr).lines[1].message = "A custom message!"

====
